---- MODULE Spec2Model ----
(***************************************************************************)
(* Model of src/src/scrape.rs (ordovicia/scholar): extraction of Paper     *)
(* records from a parsed search-results / citation HTML document.          *)
(*                                                                         *)
(* Strings are sequences of characters; a character is a one-element TLA+  *)
(* string, except "U0663", which stands for the single character U+0663    *)
(* ARABIC-INDIC DIGIT THREE (a Unicode decimal digit that is not ASCII).   *)
(* Unsigned integers are kept as canonical decimal numerals (a sequence of *)
(* ASCII digits without leading zeros), because u32/u64 values do not fit  *)
(* the model checker's integers; width checks compare numerals.            *)
(***************************************************************************)
EXTENDS Integers, Sequences, FiniteSets, TLC

VARIABLES doc, input, last, first, calls, compiled

vars == <<doc, input, last, first, calls, compiled>>

-----------------------------------------------------------------------------
(* Bounds of the input families                                            *)

MaxDigits == 2
MaxBlocks == 2
MaxCalls == 2

-----------------------------------------------------------------------------
(* Option and Result values                                                *)

None == <<>>
Some(x) == <<x>>

\* Result<T>: <<"Ok", value>> or <<"Err", error kind>>; a panic of the call is
\* the third outcome <<"Panic", place>>
Ok(v) == <<"Ok", v>>
Err(e) == <<"Err", e>>
Panic(where) == <<"Panic", where>>
Kind(r) == r[1]
Val(r) == r[2]

BadHtml == Err("BadHtml")
ParseIntError == Err("ParseInt")

IsOk(r) == Kind(r) = "Ok"

\* A call's outcome together with the calls it made, in order.
Ret(r, l) == <<r, l>>
ResOf(x) == x[1]
LogOf(x) == x[2]
Ev(e, n) == <<e, n>>

-----------------------------------------------------------------------------
(* Characters, numerals and integer parsing                                *)

AsciiDigits == {"0", "1", "2", "3", "4", "5", "6", "7", "8", "9"}
UDigit == "U0663"

\* \d of the regex crate is Unicode-aware: \p{Nd}
IsReDigit(c) == c \in AsciiDigits \cup {UDigit}
IsWhite(c) == c \in {" ", "\n"}

DigitVal(c) ==
  CASE c = "0" -> 0 [] c = "1" -> 1 [] c = "2" -> 2 [] c = "3" -> 3
    [] c = "4" -> 4 [] c = "5" -> 5 [] c = "6" -> 6 [] c = "7" -> 7
    [] c = "8" -> 8 [] c = "9" -> 9

U64Max == <<"1","8","4","4","6","7","4","4","0","7","3","7","0","9","5","5","1","6","1","5">>
U32Max == <<"4","2","9","4","9","6","7","2","9","5">>

RECURSIVE StripZeros(_)
StripZeros(s) ==
  IF Len(s) > 1 /\ Head(s) = "0" THEN StripZeros(Tail(s)) ELSE s

RECURSIVE LexLE(_, _)
LexLE(a, b) ==
  IF a = <<>> THEN TRUE
  ELSE IF DigitVal(Head(a)) < DigitVal(Head(b)) THEN TRUE
  ELSE IF DigitVal(Head(a)) > DigitVal(Head(b)) THEN FALSE
  ELSE LexLE(Tail(a), Tail(b))

\* a <= b for canonical numerals
NumLE(a, b) ==
  \/ Len(a) < Len(b)
  \/ Len(a) = Len(b) /\ LexLE(a, b)

\* str::parse::<uN>() on a non-empty string: Err on a character that is not
\* an ASCII digit, Err on overflow of the target width, else the value.
ParseUint(s, max) ==
  IF s = <<>> \/ \E i \in 1..Len(s) : s[i] \notin AsciiDigits
  THEN ParseIntError
  ELSE IF NumLE(StripZeros(s), max) THEN Ok(StripZeros(s))
  ELSE ParseIntError

-----------------------------------------------------------------------------
(* Regular expressions                                                     *)

MinOf(S) == CHOOSE x \in S : \A y \in S : x <= y

StartsWith(s, i, pat) ==
  /\ i + Len(pat) - 1 <= Len(s)
  /\ \A k \in 1..Len(pat) : s[i + k - 1] = pat[k]

\* index of the last character of the maximal run of \d starting at i
\* (i - 1 when s[i] is not a digit): greedy \d+
RECURSIVE DigitRunEnd(_, _)
DigitRunEnd(s, i) ==
  IF i <= Len(s) /\ IsReDigit(s[i]) THEN DigitRunEnd(s, i + 1) ELSE i - 1

\* same for [^\d]+
RECURSIVE NonDigitRunEnd(_, _)
NonDigitRunEnd(s, i) ==
  IF i <= Len(s) /\ ~IsReDigit(s[i]) THEN NonDigitRunEnd(s, i + 1) ELSE i - 1

KeyCluster == <<"c","l","u","s","t","e","r","=">>
KeyCites == <<"c","i","t","e","s","=">>

\* (cluster|cites)=(\d+) anchored at i: the start of group 2, or 0
IdMatchAt(s, i) ==
  IF StartsWith(s, i, KeyCluster) /\ DigitRunEnd(s, i + 8) >= i + 8 THEN i + 8
  ELSE IF StartsWith(s, i, KeyCites) /\ DigitRunEnd(s, i + 6) >= i + 6 THEN i + 6
  ELSE 0

\* the capture group that starts at g
DigitGroup(s, g) == Some(SubSeq(s, g, DigitRunEnd(s, g)))

\* the group of the leftmost of the matches that start at the positions starts
IdLeftmost(url, starts) ==
  IF starts = {} THEN None ELSE DigitGroup(url, IdMatchAt(url, MinOf(starts)))

\* RE.captures(url): group 2 of the leftmost match, or None
IdCaptures(url) ==
  IdLeftmost(url, {i \in 1..Len(url) : IdMatchAt(url, i) > 0})

\* [^\d]+(\d+) anchored at i, e the end of the run of [^\d]: the start of
\* group 1, or 0
CountMatchFrom(s, i, e) ==
  IF e >= i /\ DigitRunEnd(s, e + 1) >= e + 1 THEN e + 1 ELSE 0

CountMatchAt(s, i) == CountMatchFrom(s, i, NonDigitRunEnd(s, i))

CountLeftmost(text, starts) ==
  IF starts = {} THEN None ELSE DigitGroup(text, CountMatchAt(text, MinOf(starts)))

\* RE.captures(text): group 1 of the leftmost match, or None
CountCaptures(text) ==
  CountLeftmost(text, {i \in 1..Len(text) : CountMatchAt(text, i) > 0})

\* try_html!(caps), try_html!(caps.get(2)), id.as_str().parse()?
IdOfCaptures(caps) ==
  IF caps = None THEN BadHtml ELSE ParseUint(caps[1], U64Max)

parse_id_from_url(url) == IdOfCaptures(IdCaptures(url))

\* count.as_str().parse().unwrap()
UnwrapCount(count) ==
  IF IsOk(count) THEN count ELSE Panic("parse_citation_count:unwrap")

\* try_html!(caps), try_html!(caps.get(1)), the conversion
CountOfCaptures(caps) ==
  IF caps = None THEN BadHtml ELSE UnwrapCount(ParseUint(caps[1], U32Max))

parse_citation_count(text) == CountOfCaptures(CountCaptures(text))

-----------------------------------------------------------------------------
(* The parsed document: select::document::Document keeps its nodes in one  *)
(* vector in document order; a node knows its parent (0: none).            *)

Elem(p, nm, i, cl, h) ==
  [parent |-> p, kind |-> "element", name |-> nm, id |-> i, class |-> cl,
   href |-> h, text |-> <<>>]
Txt(p, t) ==
  [parent |-> p, kind |-> "text", name |-> "", id |-> "", class |-> {},
   href |-> None, text |-> t]

RECURSIVE SetToSeq(_)
\* the members of a set of node indices in ascending (document) order
SetToSeq(S) ==
  IF S = {} THEN <<>> ELSE <<MinOf(S)>> \o SetToSeq(S \ {MinOf(S)})

RECURSIVE IsAncestor(_, _, _)
IsAncestor(d, a, n) ==
  IF d[n].parent = 0 THEN FALSE
  ELSE d[n].parent = a \/ IsAncestor(d, a, d[n].parent)

RECURSIVE HasAncestorWithId(_, _, _)
\* the loop of Descendant::matches: walk up the parents of n
HasAncestorWithId(d, n, v) ==
  IF d[n].parent = 0 THEN FALSE
  ELSE \/ d[d[n].parent].kind = "element" /\ d[d[n].parent].id = v
       \/ HasAncestorWithId(d, d[n].parent, v)

ChildSet(d, n) == {i \in 1..Len(d) : d[i].parent = n}
Children(d, n) == SetToSeq(ChildSet(d, n))
Descendants(d, n) == {i \in 1..Len(d) : IsAncestor(d, n, i)}

\* Node::attr: only elements carry attributes
AttrHref(d, n) == IF d[n].kind = "element" THEN d[n].href ELSE None

RECURSIVE NodeText(_, _)
RECURSIVE ConcatTexts(_, _)
\* Node::text: the node's own text followed by its children's, recursively
NodeText(d, n) == d[n].text \o ConcatTexts(d, Children(d, n))
\* the texts of the nodes ns, one after the other
ConcatTexts(d, ns) ==
  IF ns = <<>> THEN <<>> ELSE NodeText(d, Head(ns)) \o ConcatTexts(d, Tail(ns))

\* Predicates of select::predicate
IsClass(d, n, c) == d[n].kind = "element" /\ c \in d[n].class
IsName(d, n, nm) == d[n].kind = "element" /\ d[n].name = nm
IsAttrId(d, n, v) == d[n].kind = "element" /\ d[n].id = v
IsText(d, n) == d[n].kind = "text"

RECURSIVE TrimStart(_)
TrimStart(s) == IF s # <<>> /\ IsWhite(Head(s)) THEN TrimStart(Tail(s)) ELSE s
RECURSIVE TrimEnd(_)
TrimEnd(s) ==
  IF s # <<>> /\ IsWhite(s[Len(s)]) THEN TrimEnd(SubSeq(s, 1, Len(s) - 1)) ELSE s
Trim(s) == TrimEnd(TrimStart(s))

-----------------------------------------------------------------------------
(* SearchDocument                                                          *)

Paper(t, i, c, cs) == [title |-> t, id |-> i, citation_count |-> c, citers |-> cs]

\* Class("gs_rt").child(Name("a"))
TitleLinkPos(d, n) ==
  IsName(d, n, "a") /\ d[n].parent # 0 /\ IsClass(d, d[n].parent, "gs_rt")

\* 2. Not a link: the children of the gs_rt nodes rts that are not spans,
\* their text concatenated and trimmed
TitleNotLink(d, rts) ==
  Trim(ConcatTexts(d, SetToSeq({c \in 1..Len(d) :
                                  d[c].parent \in rts /\ ~IsName(d, c, "span")})))

\* TitleOf with the linked title trimmed like the unlinked one
TitleOf_Trimmed(d, node, links) ==
  IF links # <<>>
  THEN Ret(Trim(NodeText(d, links[1])), <<Ev("title_link", node)>>)
  ELSE Ret(TitleNotLink(d, {i \in Descendants(d, node) : IsClass(d, i, "gs_rt")}),
           <<Ev("title_link", node), Ev("title_not_link", node)>>)

\* the body of scrape_title, links the nodes found by the first selector
TitleOf(d, node, links) ==
  IF links # <<>>
  THEN Ret(NodeText(d, links[1]), <<Ev("title_link", node)>>)
  ELSE Ret(TitleNotLink(d, {i \in Descendants(d, node) : IsClass(d, i, "gs_rt")}),
           <<Ev("title_link", node), Ev("title_not_link", node)>>)

scrape_title(d, node) ==
  TitleOf(d, node, SetToSeq({i \in Descendants(d, node) : TitleLinkPos(d, i)}))

\* the calls of parse_id_from_url made by the filter
FilterLog(withHref) ==
  [k \in 1..Len(withHref) |-> Ev("parse_id_from_url", withHref[k])]

\* lines 151-158: id and citation count of the chosen footer child
IdAndCitation(citation_node, filterLog, id, citation_count) ==
  IF ~IsOk(id)
  THEN Ret(Panic("scrape_id_and_citation:unwrap"),
           filterLog \o <<Ev("parse_id_from_url", citation_node)>>)
  ELSE IF ~IsOk(citation_count)
  THEN Ret(citation_count,
           filterLog \o <<Ev("parse_id_from_url", citation_node),
                          Ev("parse_citation_count", citation_node)>>)
  ELSE Ret(Ok(<<Val(id), Val(citation_count)>>),
           filterLog \o <<Ev("parse_id_from_url", citation_node),
                          Ev("parse_citation_count", citation_node)>>)

\* CitationNode taking the last matching footer child, not the first
CitationNode_LastMatch(d, filterLog, matching) ==
  IF matching = <<>> THEN Ret(BadHtml, filterLog)
  ELSE IdAndCitation(matching[Len(matching)], filterLog,
         parse_id_from_url(AttrHref(d, matching[Len(matching)])[1]),
         parse_citation_count(NodeText(d, matching[Len(matching)])))

\* lines 148-156: .first() of the filtered children, matching
CitationNode(d, filterLog, matching) ==
  IF matching = <<>> THEN Ret(BadHtml, filterLog)
  ELSE IdAndCitation(matching[1], filterLog,
         parse_id_from_url(AttrHref(d, matching[1])[1]),
         parse_citation_count(NodeText(d, matching[1])))

\* lines 139-147: the filter over the footer's children; withHref are those
\* carrying an href
FilterFooters(d, withHref) ==
  CitationNode(d, FilterLog(withHref),
    SelectSeq(withHref, LAMBDA c : IsOk(parse_id_from_url(AttrHref(d, c)[1]))))

\* lines 137-159, found the gs_fl nodes under the paper node
FooterScan(d, found) ==
  IF found = <<>> THEN Ret(BadHtml, <<>>)
  ELSE FilterFooters(d,
         SelectSeq(Children(d, found[1]), LAMBDA c : AttrHref(d, c) # None))

scrape_id_and_citation(d, node) ==
  FooterScan(d, SetToSeq({i \in Descendants(d, node) : IsClass(d, i, "gs_fl")}))

\* lines 66-71 with the two extractions done
PaperOf(node, title, idc) ==
  IF ~IsOk(ResOf(idc))
  THEN Ret(ResOf(idc), <<Ev("scrape_paper_one", node)>> \o LogOf(title) \o LogOf(idc))
  ELSE Ret(Ok(Paper(ResOf(title), Val(ResOf(idc))[1], Some(Val(ResOf(idc))[2]), None)),
           <<Ev("scrape_paper_one", node)>> \o LogOf(title) \o LogOf(idc))

scrape_paper_one(d, node) ==
  PaperOf(node, scrape_title(d, node), scrape_id_and_citation(d, node))

\* Attr("id", "gs_res_ccl_mid").descendant(Class("gs_ri"))
PaperPos(d, n) ==
  IsClass(d, n, "gs_ri") /\ HasAncestorWithId(d, n, "gs_res_ccl_mid")

RECURSIVE PushPapersReversed(_, _, _, _)
RECURSIVE PushOneReversed(_, _, _, _, _)
\* the for loop putting each extracted paper in front of the earlier ones
PushPapersReversed(d, nodes, papers, l) ==
  IF nodes = <<>> THEN Ret(Ok(papers), l)
  ELSE PushOneReversed(d, nodes, papers, l, scrape_paper_one(d, Head(nodes)))
PushOneReversed(d, nodes, papers, l, one) ==
  IF ~IsOk(ResOf(one)) THEN Ret(ResOf(one), l \o LogOf(one))
  ELSE PushPapersReversed(d, Tail(nodes), <<Val(ResOf(one))>> \o papers,
                          l \o LogOf(one))

RECURSIVE PushPapers(_, _, _, _)
RECURSIVE PushOne(_, _, _, _, _)
\* the for loop: push each extracted paper, leave at the first failure
PushPapers(d, nodes, papers, l) ==
  IF nodes = <<>> THEN Ret(Ok(papers), l)
  ELSE PushOne(d, nodes, papers, l, scrape_paper_one(d, Head(nodes)))
\* papers.push(Self::scrape_paper_one(&n)?) with the extraction one done
PushOne(d, nodes, papers, l, one) ==
  IF ~IsOk(ResOf(one)) THEN Ret(ResOf(one), l \o LogOf(one))
  ELSE PushPapers(d, Tail(nodes), Append(papers, Val(ResOf(one))), l \o LogOf(one))

scrape_papers(d) ==
  PushPapers(d, SetToSeq({i \in 1..Len(d) : PaperPos(d, i)}), <<>>,
             <<Ev("scrape_papers", 0)>>)

-----------------------------------------------------------------------------
(* CitationDocument                                                        *)

\* Attr("id", "gs_rt_hdr").child(Name("h2")).child(Name("a").or(Text))
TargetPos(d, n) ==
  /\ IsName(d, n, "a") \/ IsText(d, n)
  /\ d[n].parent # 0
  /\ IsName(d, d[n].parent, "h2")
  /\ d[d[n].parent].parent # 0
  /\ IsAttrId(d, d[d[n].parent].parent, "gs_rt_hdr")

\* lines 191-199 with the title and the parsed id
TargetPaper(node, title, id) ==
  IF ~IsOk(id)
  THEN Ret(id, <<Ev("scrape_target_paper", 0), Ev("parse_id_from_url", node)>>)
  ELSE Ret(Ok(Paper(title, Val(id), None, None)),
           <<Ev("scrape_target_paper", 0), Ev("parse_id_from_url", node)>>)

\* lines 188-199 for the title node, id_url its href
TargetNode(d, node, id_url) ==
  IF id_url = None THEN Ret(BadHtml, <<Ev("scrape_target_paper", 0)>>)
  ELSE TargetPaper(node, NodeText(d, node), parse_id_from_url(id_url[1]))

\* lines 185-199, found the nodes the selector matches
TargetOf(d, found) ==
  IF found = <<>> THEN Ret(BadHtml, <<Ev("scrape_target_paper", 0)>>)
  ELSE TargetNode(d, found[1], AttrHref(d, found[1]))

scrape_target_paper(d) ==
  TargetOf(d, SetToSeq({i \in 1..Len(d) : TargetPos(d, i)}))

\* lines 206-209 with both results
WithCiters(target_paper, citers) ==
  IF ~IsOk(ResOf(citers))
  THEN Ret(ResOf(citers),
           <<Ev("scrape_target_paper_with_citers", 0)>>
           \o LogOf(target_paper) \o LogOf(citers))
  ELSE Ret(Ok([Val(ResOf(target_paper)) EXCEPT !.citers = Some(Val(ResOf(citers)))]),
           <<Ev("scrape_target_paper_with_citers", 0)>>
           \o LogOf(target_paper) \o LogOf(citers))

\* TargetThenCiters scraping the citers before the target
TargetThenCiters_CitersFirst(d, target_paper) ==
  IF ~IsOk(ResOf(scrape_papers(d)))
  THEN Ret(ResOf(scrape_papers(d)),
           <<Ev("scrape_target_paper_with_citers", 0)>> \o LogOf(scrape_papers(d)))
  ELSE IF ~IsOk(ResOf(target_paper))
  THEN Ret(ResOf(target_paper),
           <<Ev("scrape_target_paper_with_citers", 0)>>
           \o LogOf(scrape_papers(d)) \o LogOf(target_paper))
  ELSE WithCiters(target_paper, scrape_papers(d))

\* lines 203-204: the target paper, then the citers unless it failed
TargetThenCiters(d, target_paper) ==
  IF ~IsOk(ResOf(target_paper))
  THEN Ret(ResOf(target_paper),
           <<Ev("scrape_target_paper_with_citers", 0)>> \o LogOf(target_paper))
  ELSE WithCiters(target_paper, scrape_papers(d))

scrape_target_paper_with_citers(d) == TargetThenCiters(d, scrape_target_paper(d))

-----------------------------------------------------------------------------
(* Input documents.  A fragment is a sequence of nodes whose parents are   *)
(* positions in the fragment (0: the node the fragment is mounted under).  *)

Mount(frag, at, off) ==
  [k \in 1..Len(frag) |->
     [frag[k] EXCEPT !.parent = IF @ = 0 THEN at ELSE @ + off]]

S_Ta == <<" ", "T", "a", " ">>
S_Tb == <<" ", "T", "b", " ">>
S_Td == <<" ", "T", "d", " ">>
S_Te == <<"T", "e">>
S_f == <<"f", " ">>
S_X == <<"X">>
S_Y == <<"Y">>
S_Tg == <<"T", "g">>
S_Th == <<"T", "h">>
S_Label == <<"[", "B", "]">>
S_Space == <<" ">>
S_Cite == <<"C", "i", "t", "e">>
S_Rel4 == <<"R", "e", "l", " ", "4">>
S_CitedBy7 == <<"C", "i", "t", "e", "d", " ", "b", "y", " ", "7">>
S_All3 == <<"A", "l", "l", " ", "3">>
S_Cited == <<"C", "i", "t", "e", "d", " ", "b", "y">>
S_CitedBig == <<"C", "i", "t", "e", "d", " ", "b", "y", " ", "4", "2", "9", "4", "9", "6", "7", "2", "9", "6">>
S_CitedMax == <<"C", "i", "t", "e", "d", " ", "b", "y", " ", "4", "2", "9", "4", "9", "6", "7", "2", "9", "5">>
S_CitedU == <<"C", "i", "t", "e", "d", " ", "b", "y", " ", UDigit>>
S_Digits9 == <<"9">>
H_paper == <<"/", "p", ".", "p", "d", "f">>
H_related == <<"?", "q", "=", "r", "e", "l", "a", "t", "e", "d", ":", "x">>
H_cites12 == <<"/", "s", "c", "h", "o", "l", "a", "r", "?", "c", "i", "t", "e", "s", "=", "1", "2", "&", "a", "s", "=", "5">>
H_cluster5 == <<"/", "s", "c", "h", "o", "l", "a", "r", "?", "c", "l", "u", "s", "t", "e", "r", "=", "5">>
H_cites3 == <<"/", "s", "c", "h", "o", "l", "a", "r", "?", "c", "i", "t", "e", "s", "=", "0", "0", "3">>
H_clusterBig == <<"?", "c", "l", "u", "s", "t", "e", "r", "=", "1", "8", "4", "4", "6", "7", "4", "4", "0", "7", "3", "7", "0", "9", "5", "5", "1", "6", "1", "6">>
H_clusterMax == <<"?", "c", "l", "u", "s", "t", "e", "r", "=", "1", "8", "4", "4", "6", "7", "4", "4", "0", "7", "3", "7", "0", "9", "5", "5", "1", "6", "1", "5">>

TitleShapes == {"linked", "unlinked", "none", "empty", "deep", "two_links", "mixed"}

TitleFrag(t) ==
  CASE t = "linked" ->
         <<Elem(0, "h3", "", {"gs_rt"}, None),
           Elem(1, "span", "", {}, None), Txt(2, S_Label),
           Elem(1, "a", "", {}, Some(H_paper)), Txt(4, S_Ta)>>
    [] t = "unlinked" ->
         <<Elem(0, "h3", "", {"gs_rt"}, None),
           Elem(1, "span", "", {"gs_ct"}, None), Txt(2, S_Label),
           Txt(1, S_Tb)>>
    [] t = "none" -> <<>>
    [] t = "empty" -> <<Elem(0, "h3", "", {"gs_rt"}, None)>>
    [] t = "deep" ->
         <<Elem(0, "h3", "", {"gs_rt"}, None),
           Elem(1, "b", "", {}, None),
           Elem(2, "a", "", {}, Some(H_paper)), Txt(3, S_Td)>>
    [] t = "two_links" ->
         <<Elem(0, "h3", "", {"gs_rt"}, None),
           Elem(1, "a", "", {}, Some(H_paper)), Txt(2, S_X),
           Elem(1, "a", "", {}, Some(H_paper)), Txt(4, S_Y)>>
    [] t = "mixed" ->
         <<Elem(0, "h3", "", {"gs_rt", "x"}, None),
           Txt(1, S_Space), Txt(1, S_Te),
           Elem(1, "span", "", {}, None), Txt(4, S_Label),
           Elem(1, "i", "", {}, None), Txt(6, S_f)>>

FooterShapes ==
  {"good", "none", "nolink", "nodigit", "overflow", "udigit", "deeplink",
   "two", "bigid"}

FooterFrag(f) ==
  CASE f = "good" ->
         <<Elem(0, "div", "", {"gs_fl"}, None),
           Txt(1, S_Space),
           Elem(1, "a", "", {}, None), Txt(3, S_Cite),
           Elem(1, "a", "", {}, Some(H_related)), Txt(5, S_Rel4),
           Elem(1, "a", "", {}, Some(H_cites12)), Txt(7, S_CitedBy7),
           Elem(1, "a", "", {}, Some(H_cluster5)), Txt(9, S_All3)>>
    [] f = "none" -> <<>>
    [] f = "nolink" ->
         <<Elem(0, "div", "", {"gs_fl"}, None),
           Elem(1, "a", "", {}, None), Txt(2, S_Cite),
           Elem(1, "a", "", {}, Some(H_related)), Txt(4, S_Rel4)>>
    [] f = "nodigit" ->
         <<Elem(0, "div", "", {"gs_fl"}, None),
           Elem(1, "a", "", {}, Some(H_cites12)), Txt(2, S_Cited),
           Elem(1, "a", "", {}, Some(H_cluster5)), Txt(4, S_All3)>>
    [] f = "overflow" ->
         <<Elem(0, "div", "", {"gs_fl"}, None),
           Elem(1, "a", "", {}, Some(H_cites12)), Txt(2, S_CitedBig)>>
    [] f = "udigit" ->
         <<Elem(0, "div", "", {"gs_fl"}, None),
           Elem(1, "a", "", {}, Some(H_cites12)), Txt(2, S_CitedU)>>
    [] f = "deeplink" ->
         <<Elem(0, "div", "", {"gs_fl"}, None),
           Elem(1, "span", "", {}, None),
           Elem(2, "a", "", {}, Some(H_cites12)), Txt(3, S_CitedBy7)>>
    [] f = "two" ->
         <<Elem(0, "div", "", {"gs_fl", "gs_x"}, None),
           Elem(1, "a", "", {}, Some(H_cites3)), Txt(2, S_All3),
           Elem(0, "div", "", {"gs_fl"}, None),
           Elem(3, "a", "", {}, Some(H_cites12)), Txt(4, S_CitedBy7)>>
    [] f = "bigid" ->
         <<Elem(0, "div", "", {"gs_fl"}, None),
           Elem(1, "a", "", {}, Some(H_clusterBig)), Txt(2, S_CitedBy7),
           Elem(1, "a", "", {}, Some(H_clusterMax)), Txt(4, S_CitedMax)>>

\* one paper block: <div class="gs_ri"> title footer </div>
Block(t, f) ==
  <<Elem(0, "div", "", {"gs_ri"}, None)>>
  \o Mount(TitleFrag(t), 1, 1)
  \o Mount(FooterFrag(f), 1, 1 + Len(TitleFrag(t)))

BlockShapes ==
  {<<t, "good">> : t \in TitleShapes} \cup {<<"linked", f>> : f \in FooterShapes}

HeaderShapes ==
  {"none", "good", "text_first", "text_only", "no_href", "bad_href",
   "big_href", "no_h2", "deep_h2", "two"}

HeaderFrag(h) ==
  CASE h = "none" -> <<>>
    [] h = "good" ->
         <<Elem(0, "div", "gs_rt_hdr", {}, None),
           Elem(1, "h2", "", {}, None),
           Elem(2, "a", "", {}, Some(H_cluster5)), Txt(3, S_Tg),
           Txt(1, S_Space)>>
    [] h = "text_first" ->
         <<Elem(0, "div", "gs_rt_hdr", {}, None),
           Elem(1, "h2", "", {}, None),
           Txt(2, S_Space),
           Elem(2, "a", "", {}, Some(H_cluster5)), Txt(4, S_Tg)>>
    [] h = "text_only" ->
         <<Elem(0, "div", "gs_rt_hdr", {}, None),
           Elem(1, "h2", "", {}, None), Txt(2, S_Tg)>>
    [] h = "no_href" ->
         <<Elem(0, "div", "gs_rt_hdr", {}, None),
           Elem(1, "h2", "", {}, None),
           Elem(2, "a", "", {}, None), Txt(3, S_Tg)>>
    [] h = "bad_href" ->
         <<Elem(0, "div", "gs_rt_hdr", {}, None),
           Elem(1, "h2", "", {}, None),
           Elem(2, "a", "", {}, Some(H_related)), Txt(3, S_Tg)>>
    [] h = "big_href" ->
         <<Elem(0, "div", "gs_rt_hdr", {}, None),
           Elem(1, "h2", "", {}, None),
           Elem(2, "a", "", {}, Some(H_clusterBig)), Txt(3, S_Tg)>>
    [] h = "no_h2" ->
         <<Elem(0, "div", "gs_rt_hdr", {}, None),
           Elem(1, "a", "", {}, Some(H_cluster5)), Txt(2, S_Tg)>>
    [] h = "deep_h2" ->
         <<Elem(0, "div", "gs_rt_hdr", {}, None),
           Elem(1, "div", "", {}, None),
           Elem(2, "h2", "", {}, None),
           Elem(3, "a", "", {}, Some(H_cluster5)), Txt(4, S_Tg)>>
    [] h = "two" ->
         <<Elem(0, "div", "gs_rt_hdr", {}, None),
           Elem(1, "h2", "", {}, None),
           Elem(2, "a", "", {}, Some(H_cites12)), Txt(3, S_Th),
           Elem(2, "a", "", {}, Some(H_cluster5)), Txt(5, S_Tg)>>

ContainerShapes == {"direct", "wrapped", "absent"}

ContainerFrag(c) ==
  CASE c = "direct" -> <<Elem(0, "div", "gs_res_ccl_mid", {}, None)>>
    [] c = "wrapped" ->
         <<Elem(0, "div", "gs_res_ccl_mid", {}, None),
           Elem(1, "div", "", {"gs_r"}, None)>>
    [] c = "absent" -> <<Elem(0, "div", "gs_res", {}, None)>>

RECURSIVE MountBlocks(_, _, _)
\* the blocks bs, one after the other, under node at; off nodes precede them
MountBlocks(bs, at, off) ==
  IF bs = <<>> THEN <<>>
  ELSE Mount(Block(Head(bs)[1], Head(bs)[2]), at, off)
       \o MountBlocks(Tail(bs), at, off + Len(Block(Head(bs)[1], Head(bs)[2])))

\* <body> header container(blocks) </body>
DocOf(hdr, cont, bs) ==
  <<Elem(0, "body", "", {}, None)>>
  \o Mount(hdr, 1, 1)
  \o Mount(cont, 1, 1 + Len(hdr))
  \o MountBlocks(bs, 1 + Len(hdr) + Len(cont), 1 + Len(hdr) + Len(cont))

Doc(h, c, bs) == DocOf(HeaderFrag(h), ContainerFrag(c), bs)

RECURSIVE SeqsUpTo(_, _)
SeqsUpTo(S, n) ==
  IF n = 0 THEN {<<>>}
  ELSE SeqsUpTo(S, n - 1) \cup {Append(q, x) : q \in SeqsUpTo(S, n - 1), x \in S}

CiterShapes == {<<"linked", "good">>, <<"linked", "none">>, <<"linked", "overflow">>}

SeqShapes ==
  {<<"linked", "good">>, <<"unlinked", "bigid">>, <<"linked", "none">>,
   <<"linked", "overflow">>}

SearchDocs ==
  {Doc("none", "direct", bs) : bs \in SeqsUpTo(SeqShapes, MaxBlocks)}
  \cup {Doc("none", c, bs) : c \in {"wrapped", "absent"}, bs \in SeqsUpTo(SeqShapes, 1)}
  \cup {Doc("none", "direct", <<b>>) : b \in BlockShapes}
CitationDocs ==
  {Doc(h, "direct", bs) : h \in HeaderShapes \ {"none"}, bs \in SeqsUpTo(CiterShapes, 1)}
Docs == SearchDocs \cup CitationDocs

-----------------------------------------------------------------------------
(* The program: one document, queried by the scrape calls                  *)

DocOps == {"scrape_papers", "scrape_target_paper", "scrape_target_paper_with_citers"}
Regexes(l) ==
  {l[k][1] : k \in {j \in 1..Len(l) : l[j][1] \in {"parse_id_from_url", "parse_citation_count"}}}

Init ==
  /\ doc \in Docs
  /\ input = <<>>
  /\ last = [op |-> "none", arg |-> 0, res |-> Ok(None), log |-> <<>>]
  /\ first = [o \in DocOps |-> None]
  /\ calls = 0
  /\ compiled = {}

\* a call that consumes the last node of the document it reads
CalledConsuming(op, arg, r) ==
  /\ op \in DocOps => calls < MaxCalls
  /\ calls' = IF op \in DocOps THEN calls + 1 ELSE calls
  /\ last' = [op |-> op, arg |-> arg, res |-> ResOf(r), log |-> LogOf(r)]
  /\ first' = IF op \in DocOps /\ first[op] = None
              THEN [first EXCEPT ![op] = Some(ResOf(r))] ELSE first
  /\ compiled' = compiled \cup Regexes(LogOf(r))
  /\ doc' = IF op \in DocOps THEN SubSeq(doc, 1, Len(doc) - 1) ELSE doc
  /\ UNCHANGED input

\* a call of op with argument arg returned r
Called(op, arg, r) ==
  /\ op \in DocOps => calls < MaxCalls
  /\ calls' = IF op \in DocOps THEN calls + 1 ELSE calls
  /\ last' = [op |-> op, arg |-> arg, res |-> ResOf(r), log |-> LogOf(r)]
  /\ first' = IF op \in DocOps /\ first[op] = None
              THEN [first EXCEPT ![op] = Some(ResOf(r))] ELSE first
  /\ compiled' = compiled \cup Regexes(LogOf(r))
  /\ UNCHANGED <<doc, input>>

ScrapePapers == Called("scrape_papers", 0, scrape_papers(doc))
ScrapeTargetPaper == Called("scrape_target_paper", 0, scrape_target_paper(doc))
ScrapeTargetPaperWithCiters ==
  Called("scrape_target_paper_with_citers", 0, scrape_target_paper_with_citers(doc))

PaperNodes(d) == {i \in 1..Len(d) : PaperPos(d, i)}

ScrapePaperOne == \E n \in PaperNodes(doc) : Called("scrape_paper_one", n, scrape_paper_one(doc, n))
ScrapeTitle == \E n \in PaperNodes(doc) : Called("scrape_title", n, scrape_title(doc, n))
ScrapeIdAndCitation ==
  \E n \in PaperNodes(doc) : Called("scrape_id_and_citation", n, scrape_id_and_citation(doc, n))

Next ==
  \/ ScrapePapers
  \/ ScrapeTargetPaper
  \/ ScrapeTargetPaperWithCiters
  \/ ScrapePaperOne
  \/ ScrapeTitle
  \/ ScrapeIdAndCitation

Spec == Init /\ [][Next]_vars

-----------------------------------------------------------------------------
(* The two parsers on their own, over families of strings                  *)

RECURSIVE DigitStrings(_)
\* the strings of 1..n digits drawn from 0, 1, 9
DigitStrings(n) ==
  IF n = 0 THEN {}
  ELSE {<<c>> : c \in {"0", "1", "9"}}
       \cup {Append(q, c) : q \in DigitStrings(n - 1), c \in {"0", "1", "9"}}

U64Over == <<"1", "8", "4", "4", "6", "7", "4", "4", "0", "7", "3", "7", "0", "9", "5", "5", "1", "6", "1", "6">>
U32Over == <<"4", "2", "9", "4", "9", "6", "7", "2", "9", "6">>

UrlValues ==
  DigitStrings(MaxDigits)
  \cup {<<>>, <<"a", "a", "a", "a", "a", "a">>, <<"1", "2", "3", "4", "5", "6">>, U64Max, U64Over, <<"0">> \o U64Max,
        <<UDigit>>, <<"1", UDigit>>, <<UDigit, "1">>}
UrlKeys == {<<"c", "l", "u", "s", "t", "e", "r", "=">>, <<"c", "i", "t", "e", "s", "=">>, <<"c", "l", "a", "s", "t", "e", "r", "=">>, <<"c", "l", "u", "s", "t", "e", "r">>, <<"C", "i", "t", "e", "s", "=">>}
UrlPrefixes == {<<>>, <<"s", "c", "h", "o", "l", "a", "r", "?">>, <<"c", "i", "t", "e", "s", "=", "&">>, <<"7", "c", "l", "u", "s", "t", "e", "r", "=", "x">>}
UrlSuffixes == {<<>>, <<"&", "f", "o", "o", "=", "b", "a", "r">>, <<"&", "c", "i", "t", "e", "s", "=", "7">>, <<"x", "1">>}
Urls ==
  {a \o k \o v \o z : a \in UrlPrefixes, k \in UrlKeys, v \in UrlValues, z \in UrlSuffixes}
  \cup {<<"f", "o", "o">>}

TextValues ==
  DigitStrings(MaxDigits)
  \cup {<<>>, <<"1", "1", "1">>, U32Max, U32Over, <<"0">> \o U32Max,
        <<UDigit>>, <<"1", UDigit>>, <<UDigit, "1">>}
TextPrefixes == {<<>>, <<"C", "i", "t", "e", "d", " ", "b", "y", " ">>, <<"U5F15", "U5F15", " ">>, <<" ">>, <<"1", "2", " ", "b", "y", " ">>, <<"\n">>}
TextSuffixes == {<<>>, <<" ", "x">>, <<" ", "x", "5">>}
Texts ==
  {a \o v \o z : a \in TextPrefixes, v \in TextValues, z \in TextSuffixes}
  \cup {<<"f", "o", "o">>}

InitParse ==
  /\ doc = Doc("none", "direct", <<>>)
  /\ input \in Urls \cup Texts
  /\ last = [op |-> "none", arg |-> 0, res |-> Ok(None), log |-> <<>>]
  /\ first = [o \in DocOps |-> None]
  /\ calls = 0
  /\ compiled = {}

ParseIdFromUrl ==
  Called("parse_id_from_url", 0,
         Ret(parse_id_from_url(input), <<Ev("parse_id_from_url", 0)>>))
ParseCitationCount ==
  Called("parse_citation_count", 0,
         Ret(parse_citation_count(input), <<Ev("parse_citation_count", 0)>>))

NextParse == ParseIdFromUrl \/ ParseCitationCount

SpecParse == InitParse /\ [][NextParse]_vars

-----------------------------------------------------------------------------
(* Claims about the parsers (SpecParse).  In the claims a decimal digit is *)
(* one of 0..9.                                                            *)

RECURSIVE AsciiRunEnd(_, _)
AsciiRunEnd(s, i) ==
  IF i <= Len(s) /\ s[i] \in AsciiDigits THEN AsciiRunEnd(s, i + 1) ELSE i - 1

\* the positions just after a 'cluster=' or 'cites=' that is immediately
\* followed by a decimal digit
C5_Occurrences(u) ==
  {g \in 1..Len(u) :
     /\ u[g] \in AsciiDigits
     /\ \/ g > 8 /\ SubSeq(u, g - 8, g - 1) = KeyCluster
        \/ g > 6 /\ SubSeq(u, g - 6, g - 1) = KeyCites}

\* C4: scrape_papers, scrape_target_paper and scrape_target_paper_with_citers
\* always end by returning Ok or Err; none of them ever panics.
C4_AlwaysReturns ==
  last.op \in DocOps => Kind(last.res) \in {"Ok", "Err"}

\* C5: parse_id_from_url returns the value of the digit run of the leftmost
\* 'cluster=' or 'cites=' that is immediately followed by a decimal digit,
\* fails when there is no such occurrence, and fails with the numeric
\* conversion error when the digit run exceeds 2^64 - 1.
C5_FirstOccurrenceValue ==
  last.op = "parse_id_from_url" =>
    LET occ == C5_Occurrences(input)
        g == CHOOSE x \in occ : \A y \in occ : x <= y
        run == StripZeros(SubSeq(input, g, AsciiRunEnd(input, g)))
    IN IF occ = {} THEN Kind(last.res) = "Err"
       ELSE IF NumLE(run, U64Max) THEN last.res = Ok(run)
       ELSE last.res = ParseIntError

\* C6: on <one or more non-digits><one or more digits> parse_citation_count
\* returns the value of the digit run (when it is a u32 value); on a string
\* in which no digit is preceded by a non-digit it fails with BadHtml.
C6_PrefixThenDigits ==
  last.op = "parse_citation_count" =>
    LET n == Len(input)
        splits == {k \in 1..(n - 1) :
                     /\ \A i \in 1..k : input[i] \notin AsciiDigits
                     /\ \A i \in (k + 1)..n : input[i] \in AsciiDigits}
        k == CHOOSE x \in splits : TRUE
        run == StripZeros(SubSeq(input, k + 1, n))
        preceded == {i \in 2..n : input[i] \in AsciiDigits
                                  /\ input[i - 1] \notin AsciiDigits}
    IN /\ splits # {} /\ NumLE(run, U32Max) => last.res = Ok(run)
       /\ preceded = {} => last.res = BadHtml

-----------------------------------------------------------------------------
(* Claims about the scrape calls (Spec)                                    *)

\* the paper blocks of d, in document order
C_Blocks(d) ==
  SetToSeq({n \in 1..Len(d) :
              /\ d[n].kind = "element" /\ "gs_ri" \in d[n].class
              /\ \E a \in 1..Len(d) :
                   /\ d[a].kind = "element" /\ d[a].id = "gs_res_ccl_mid"
                   /\ n \in Descendants(d, a)})

\* the per-node extraction of the k-th block
C_Extract(d, k) == ResOf(scrape_paper_one(d, C_Blocks(d)[k]))

\* C1: when every paper block is extractable, scrape_papers returns Ok with
\* exactly the extraction of the i-th block as record i, each with
\* citation_count set and citers unset (the empty sequence with no block).
C1_OneRecordPerBlock ==
  last.op = "scrape_papers" =>
    LET nb == Len(C_Blocks(doc))
    IN (\A k \in 1..nb : IsOk(C_Extract(doc, k))) =>
         /\ last.res = Ok([k \in 1..nb |-> Val(C_Extract(doc, k))])
         /\ \A k \in 1..nb :
              /\ Val(last.res)[k].citation_count # None
              /\ Val(last.res)[k].citers = None

C1_Witness ==
  /\ last.op = "scrape_papers"
  /\ IsOk(last.res)
  /\ Len(Val(last.res)) >= 2
  /\ Val(last.res)[1] # Val(last.res)[2]

\* C2: if the extraction of some paper block fails, scrape_papers returns
\* the failure of the first failing block and extracts no block after it.
C2_FirstFailureReturned ==
  last.op = "scrape_papers" =>
    LET blocks == C_Blocks(doc)
        failing == {k \in 1..Len(blocks) : Kind(C_Extract(doc, k)) = "Err"}
        f == MinOf(failing)
    IN failing # {} =>
         /\ last.res = C_Extract(doc, f)
         /\ \A j \in 1..Len(last.log) :
              last.log[j][1] = "scrape_paper_one" => last.log[j][2] <= blocks[f]

\* C3: scrape_target_paper_with_citers succeeds exactly when scrape_target_paper
\* and scrape_papers both do, and then returns the target's title and id,
\* citation_count unset and citers = Some(the papers); a failure of
\* scrape_target_paper is returned without running scrape_papers, otherwise
\* a failure of scrape_papers is returned; scrape_target_paper itself leaves
\* citation_count and citers unset.
C3_Composition ==
  /\ last.op = "scrape_target_paper" /\ IsOk(last.res) =>
       Val(last.res).citation_count = None /\ Val(last.res).citers = None
  /\ last.op = "scrape_target_paper_with_citers" =>
       LET t == ResOf(scrape_target_paper(doc))
           p == ResOf(scrape_papers(doc))
       IN /\ IsOk(last.res) <=> (IsOk(t) /\ IsOk(p))
          /\ IsOk(last.res) =>
               /\ Val(last.res) = Paper(Val(t).title, Val(t).id, None, Some(Val(p)))
               /\ \A k \in 1..Len(Val(p)) : Val(p)[k].citers = None
          /\ ~IsOk(t) =>
               /\ last.res = t
               /\ \A j \in 1..Len(last.log) : last.log[j][1] # "scrape_papers"
          /\ IsOk(t) /\ ~IsOk(p) => last.res = p

C3_Witness ==
  /\ last.op = "scrape_target_paper_with_citers"
  /\ IsOk(last.res)
  /\ Val(last.res).citers # None
  /\ Len(Val(last.res).citers[1]) >= 1

C8_Candidates(d, n) ==
  LET fls == {i \in Descendants(d, n) : d[i].kind = "element" /\ "gs_fl" \in d[i].class}
  IN IF fls = {} THEN {}
     ELSE {c \in 1..Len(d) :
             /\ d[c].parent = MinOf(fls)
             /\ d[c].kind = "element" /\ d[c].href # None
             /\ IsOk(parse_id_from_url(d[c].href[1]))}

\* C8: scrape_id_and_citation takes the first direct child of the node's
\* first footer region whose href parse_id_from_url accepts; the id comes
\* from that child's href and the count from that child's text; BadHtml
\* when there is no footer region or no such child.
C8_FooterScan ==
  last.op = "scrape_id_and_citation" =>
    LET cand == C8_Candidates(doc, last.arg)
        c == MinOf(cand)
        count == parse_citation_count(NodeText(doc, c))
    IN IF cand = {} THEN last.res = BadHtml
       ELSE /\ IsOk(count) => IsOk(last.res)
            /\ IsOk(last.res) =>
                 Val(last.res) = <<Val(parse_id_from_url(doc[c].href[1])), Val(count)>>

\* a success that skipped a child without href and a child with an href
\* that holds no identifier
C8_Witness ==
  /\ last.op = "scrape_id_and_citation"
  /\ IsOk(last.res)
  /\ LET c == MinOf(C8_Candidates(doc, last.arg))
     IN /\ \E e \in 1..(c - 1) :
             /\ doc[e].parent = doc[c].parent /\ doc[e].kind = "element"
             /\ doc[e].href = None
        /\ \E e \in 1..(c - 1) :
             /\ doc[e].parent = doc[c].parent /\ doc[e].kind = "element"
             /\ doc[e].href # None
        /\ \E e \in (c + 1)..Len(doc) :
             e \in C8_Candidates(doc, last.arg)

\* the title containers under n
C9_Containers(d, n) ==
  {i \in Descendants(d, n) : d[i].kind = "element" /\ "gs_rt" \in d[i].class}

\* the text of the non-span direct children of the title container, trimmed
C9_Unlinked(d, n) ==
  LET kids == SetToSeq({c \in 1..Len(d) :
                          /\ d[c].parent \in C9_Containers(d, n)
                          /\ ~(d[c].kind = "element" /\ d[c].name = "span")})
  IN Trim(ConcatTexts(d, kids))

C9_Holds(anchors) ==
  IF anchors # {}
  THEN /\ last.res = NodeText(doc, MinOf(anchors))
       /\ \A j \in 1..Len(last.log) : last.log[j][1] # "title_not_link"
  ELSE last.res = C9_Unlinked(doc, last.arg)

\* C9 as stated: the title is the verbatim text of the first anchor the
\* title container has (at any depth), else the trimmed concatenation of the
\* text of the container's non-span direct children.
C9_AnyAnchor ==
  last.op = "scrape_title" =>
    C9_Holds({a \in 1..Len(doc) :
                /\ doc[a].kind = "element" /\ doc[a].name = "a"
                /\ \E r \in C9_Containers(doc, last.arg) : a \in Descendants(doc, r)})

\* C9 amended: the title is the verbatim text of the first anchor that is a
\* direct child of the title container, else the trimmed concatenation of
\* the text of the container's non-span direct children (the empty string
\* when there is none); the unlinked branch is not evaluated in the first
\* case.
C9_DirectAnchor ==
  last.op = "scrape_title" =>
    C9_Holds({a \in 1..Len(doc) :
                /\ doc[a].kind = "element" /\ doc[a].name = "a"
                /\ doc[a].parent \in C9_Containers(doc, last.arg)})

\* a linked title returned with its surrounding whitespace
C9_Witness ==
  /\ last.op = "scrape_title"
  /\ \E j \in 1..Len(last.log) : last.log[j][1] = "title_link"
  /\ \A j \in 1..Len(last.log) : last.log[j][1] # "title_not_link"
  /\ last.res # <<>>
  /\ last.res # Trim(last.res)

\* C10: scrape_target_paper takes the first anchor or text node that is a
\* direct child of an h2 directly under the header region; it fails with
\* BadHtml when there is none, and otherwise only when the title node's
\* link target holds no identifier, never merely because the title node is
\* a text node.
C10_TitleNode ==
  last.op = "scrape_target_paper" =>
    LET cands == {n \in 1..Len(doc) :
                    /\ doc[n].kind = "text" \/ doc[n].name = "a"
                    /\ doc[n].parent # 0 /\ doc[doc[n].parent].name = "h2"
                    /\ doc[doc[n].parent].parent # 0
                    /\ doc[doc[doc[n].parent].parent].id = "gs_rt_hdr"}
        node == MinOf(cands)
    IN IF cands = {} THEN last.res = BadHtml
       ELSE /\ IsOk(last.res) =>
                 /\ Val(last.res).title = NodeText(doc, node)
                 /\ Val(last.res).id = Val(parse_id_from_url(doc[node].href[1]))
            /\ Kind(last.res) = "Err" =>
                 /\ doc[node].kind = "element"
                 /\ doc[node].href = None
                    \/ ~IsOk(parse_id_from_url(doc[node].href[1]))

====
